---- MODULE Spec2Model ----
(***************************************************************************)
(* Session / authentication lifecycle of the SmartCashbook client:         *)
(* jwtUtils (token codec), AuthProvider (session store, watchdog effect),  *)
(* TokenExpirationModal (countdown effect), Login form, RequireAuth and    *)
(* the two route tables.                                                    *)
(*                                                                          *)
(* Time is Date.now() in milliseconds.  A token is a record describing the *)
(* dot-separated string: how many segments it has, whether the header and  *)
(* payload segments survive atob + JSON.parse, and the claims the payload  *)
(* carries.                                                                 *)
(***************************************************************************)
EXTENDS Integers, Sequences, FiniteSets, TLC

VARIABLES
    now,                  \* Date.now(), milliseconds
    advances,             \* number of clock steps taken so far
    storage,              \* localStorage 'token' entry (Null = key absent)
    token,                \* AuthProvider state: token
    user,                 \* AuthProvider state: user
    isAuthenticated,      \* AuthProvider state
    isTokenExpiring,      \* AuthProvider state
    timeUntilExpiration,  \* AuthProvider state (minutes)
    mounted,              \* the provider's mount effects have run
    wdDeps,               \* token value the watchdog effect last ran with
    interval,             \* the provider's setInterval(checkTokenExpiration, 60000)
    mdDeps,               \* <<isTokenExpiring, token>> the modal effect last ran with
    modalInterval,        \* the modal's setInterval(updateCountdown, 1000)
    countdown,            \* TokenExpirationModal state
    inflight,             \* number of AuthProvider.login requests awaiting a response
    formInflight,         \* number of Login form submissions awaiting a response
    guard,                \* what the last route-table evaluation rendered
    last,                 \* history: the handler that ran last and what it reported
    lastCheck,            \* history: Date.now() of the store's latest isTokenExpired check
    timerLogouts,         \* history: logout() calls made by interval callbacks since
                          \* the token was last set
    screen                \* what the last opened screen offers and has requested

vars == <<now, advances, storage, token, user, isAuthenticated, isTokenExpiring,
          timeUntilExpiration, mounted, wdDeps, interval, mdDeps, modalInterval,
          countdown, inflight, formInflight, guard, last, lastCheck, timerLogouts,
          screen>>

(***************************************************************************)
(* Bounds of the model                                                      *)
(***************************************************************************)
MaxAdvances == 4        \* clock steps in a behaviour
MaxInflight == 2        \* concurrent AuthProvider.login requests
MaxSubmits == 1         \* concurrent Login form submissions
MaxTimerLogouts == 2    \* cap of the timerLogouts counter

(***************************************************************************)
(* Program constants                                                        *)
(***************************************************************************)
MsPerSecond == 1000
SecondsPerMinute == 60
WarningMinutes == 5
RefreshMinutes == 30
WatchdogPeriodMs == 60000
CountdownPeriodMs == 1000

(***************************************************************************)
(* Values                                                                   *)
(***************************************************************************)
Null == [nil |-> TRUE]              \* JS null / undefined object
Absent == "absent"                  \* a claim the payload does not carry
NoExp == -1                         \* payload without an exp claim
NoTime == -1                        \* getTokenExpirationTime() returning null
StartMs == 600 * MsPerSecond        \* Date.now() at process start
Deltas == {30 * MsPerSecond, 60 * MsPerSecond, 300 * MsPerSecond}   \* clock steps (ms)
AppDeltas == {300 * MsPerSecond}    \* clock steps (ms) of AppSpec

\* No screen of the application has been opened.
NoScreen == [view |-> "none", table |-> "none", role |-> "none", caps |-> {},
             offers |-> {}, requests |-> {}, profile |-> Null]

Or(a, b) == IF a # Absent THEN a ELSE b          \* JS a || b on claim values
Max(a, b) == IF a >= b THEN a ELSE b
Truthy(e) == e # NoExp /\ e # 0                  \* JS truthiness of payload.exp

Claims(exp, role, nsRole, email, nsEmail) ==
    [exp |-> exp, userId |-> Absent, nsUserId |-> "7",
     username |-> Absent, nsName |-> "alice",
     email |-> email, nsEmail |-> nsEmail, role |-> role, nsRole |-> nsRole]

\* segs: number of dot-separated segments; hdr / pay: "ok", "badb64" (atob
\* throws) or "badjson" (JSON.parse throws) for segment 0 / segment 1.
Tok(segs, hdr, pay, claims) == [segs |-> segs, hdr |-> hdr, pay |-> pay, claims |-> claims]

TValid10  == Tok(3, "ok", "ok", Claims(1200, Absent, "Admin", Absent, "a@x"))
TValid5   == Tok(3, "ok", "ok", Claims(900, Absent, "DataEntryUser", Absent, "d@x"))
TValid2   == Tok(3, "ok", "ok", Claims(720, "Observer", Absent, "o@x", Absent))
TExpired  == Tok(3, "ok", "ok", Claims(599, "Observer", "Admin", "s@x", "n@x"))
TNoExp    == Tok(3, "ok", "ok", Claims(NoExp, Absent, "DataEntryUser", Absent, "d@x"))
TGarbage  == Tok(3, "ok", "badb64", Claims(1200, Absent, "Admin", Absent, "a@x"))

\* Tokens the auth endpoint may return / a previous run may have stored.
ServerTokens == {TValid10, TValid5, TValid2, TExpired, TNoExp, TGarbage}

\* Strings of other shapes: two and four segments around a good payload, a
\* single segment (split('.')[1] is undefined), a payload that is base64 but
\* not JSON, and a header that is not base64.
TTwoSegs   == Tok(2, "ok", "ok", Claims(1200, Absent, "Admin", Absent, "a@x"))
TFourSegs  == Tok(4, "ok", "ok", Claims(1200, Absent, "Admin", Absent, "a@x"))
TOneSeg    == Tok(1, "ok", "none", Claims(1200, Absent, "Admin", Absent, "a@x"))
TBadJson   == Tok(3, "ok", "badjson", Claims(1200, Absent, "Admin", Absent, "a@x"))
TBadHeader == Tok(3, "badb64", "ok", Claims(1200, Absent, "Admin", Absent, "a@x"))

\* A token issued for an hour.
TLong == Tok(3, "ok", "ok", Claims(4200, Absent, "Admin", Absent, "a@x"))

AnyTokens ==
    ServerTokens \cup {TTwoSegs, TFourSegs, TOneSeg, TBadJson, TBadHeader, TLong}

(***************************************************************************)
(* jwtUtils                                                                 *)
(***************************************************************************)
\* JSON.parse(atob(token.split('.')[1])), null when anything throws.
DecodeToken(t) ==
    IF t = Null THEN Null
    ELSE IF t.segs >= 2 /\ t.pay = "ok" THEN t.claims ELSE Null

\* Mutant of IsTokenExpired: a token is expired from the second of its exp on.
IsTokenExpiredInclusive(t, ms) ==
    LET payload == DecodeToken(t) IN
    IF payload = Null \/ ~Truthy(payload.exp) THEN TRUE
    ELSE payload.exp <= (ms \div MsPerSecond)

IsTokenExpired(t, ms) ==
    LET payload == DecodeToken(t) IN
    IF payload = Null \/ ~Truthy(payload.exp) THEN TRUE
    ELSE payload.exp < (ms \div MsPerSecond)

GetTokenExpirationTime(t) ==
    LET payload == DecodeToken(t) IN
    IF payload = Null \/ ~Truthy(payload.exp) THEN NoTime
    ELSE payload.exp * MsPerSecond

\* Mutant of WillExpireSoon: the warning is decided by the whole minutes
\* left, as getTimeUntilExpiration counts them.
WillExpireSoonByMinutes(t, minutes, ms) ==
    LET expirationTime == GetTokenExpirationTime(t) IN
    IF expirationTime = NoTime THEN 0 <= minutes
    ELSE Max(0, (expirationTime - ms) \div (MsPerSecond * SecondsPerMinute)) <= minutes

\* Mutant of WillExpireSoon: the warning window excludes its boundary.
WillExpireSoonStrict(t, minutes, ms) ==
    LET expirationTime == GetTokenExpirationTime(t) IN
    IF expirationTime = NoTime THEN FALSE
    ELSE expirationTime < ms + minutes * SecondsPerMinute * MsPerSecond

WillExpireSoon(t, minutes, ms) ==
    LET expirationTime == GetTokenExpirationTime(t) IN
    IF expirationTime = NoTime THEN FALSE
    ELSE expirationTime <= ms + minutes * SecondsPerMinute * MsPerSecond

GetTimeUntilExpiration(t, ms) ==
    LET expirationTime == GetTokenExpirationTime(t) IN
    IF expirationTime = NoTime THEN 0
    ELSE Max(0, (expirationTime - ms) \div (MsPerSecond * SecondsPerMinute))

(***************************************************************************)
(* AuthProvider: session state as a record, and the operations on it        *)
(***************************************************************************)
Sess == [storage |-> storage, token |-> token, user |-> user,
         isAuthenticated |-> isAuthenticated, isTokenExpiring |-> isTokenExpiring,
         timeUntilExpiration |-> timeUntilExpiration]

SetSess(s) ==
    /\ storage' = s.storage
    /\ token' = s.token
    /\ user' = s.user
    /\ isAuthenticated' = s.isAuthenticated
    /\ isTokenExpiring' = s.isTokenExpiring
    /\ timeUntilExpiration' = s.timeUntilExpiration

\* Mutant of DecodeUserFromToken: the short-form claims are read first.
DecodeUserShortFirst(t) ==
    IF t = Null THEN Null
    ELSE LET payload == DecodeToken(t) IN
         IF payload = Null THEN Null
         ELSE [userId |-> Or(payload.userId, payload.nsUserId),
               username |-> Or(payload.username, payload.nsName),
               email |-> Or(payload.email, payload.nsEmail),
               role |-> Or(payload.role, payload.nsRole),
               exp |-> payload.exp]

DecodeUserFromToken(t) ==
    IF t = Null THEN Null
    ELSE LET payload == DecodeToken(t) IN
         IF payload = Null THEN Null
         ELSE [userId |-> Or(payload.nsUserId, payload.userId),
               username |-> Or(payload.nsName, payload.username),
               email |-> Or(payload.nsEmail, payload.email),
               role |-> Or(payload.nsRole, payload.role),
               exp |-> payload.exp]

\* Mutant of UpdateAuthState: the warning flag and the minutes are not
\* recomputed for the new token.
UpdateAuthStateKeepsWarning(s, newToken, ms) ==
    IF newToken # Null
    THEN [storage |-> newToken, token |-> newToken,
          user |-> DecodeUserFromToken(newToken),
          isAuthenticated |-> TRUE,
          isTokenExpiring |-> s.isTokenExpiring,
          timeUntilExpiration |-> s.timeUntilExpiration]
    ELSE [storage |-> Null, token |-> Null, user |-> Null,
          isAuthenticated |-> FALSE, isTokenExpiring |-> FALSE,
          timeUntilExpiration |-> 0]

\* Mutant of UpdateAuthState: user is decoded from the token state of the
\* render the callback closed over, not from the new token.
UpdateAuthStateStaleUser(s, newToken, ms) ==
    IF newToken # Null
    THEN [storage |-> newToken, token |-> newToken,
          user |-> DecodeUserFromToken(s.token),
          isAuthenticated |-> TRUE,
          isTokenExpiring |-> WillExpireSoon(newToken, WarningMinutes, ms),
          timeUntilExpiration |-> GetTimeUntilExpiration(newToken, ms)]
    ELSE [storage |-> Null, token |-> Null, user |-> Null,
          isAuthenticated |-> FALSE, isTokenExpiring |-> FALSE,
          timeUntilExpiration |-> 0]

\* Mutant of UpdateAuthState: the null branch forgets setUser(null).
UpdateAuthStateKeepsUser(s, newToken, ms) ==
    IF newToken # Null
    THEN [storage |-> newToken, token |-> newToken,
          user |-> DecodeUserFromToken(newToken),
          isAuthenticated |-> TRUE,
          isTokenExpiring |-> WillExpireSoon(newToken, WarningMinutes, ms),
          timeUntilExpiration |-> GetTimeUntilExpiration(newToken, ms)]
    ELSE [storage |-> Null, token |-> Null, user |-> s.user,
          isAuthenticated |-> FALSE, isTokenExpiring |-> FALSE,
          timeUntilExpiration |-> 0]

\* Mutant of UpdateAuthState: the null branch forgets localStorage.removeItem.
UpdateAuthStateKeepsStorage(s, newToken, ms) ==
    IF newToken # Null
    THEN [storage |-> newToken, token |-> newToken,
          user |-> DecodeUserFromToken(newToken),
          isAuthenticated |-> TRUE,
          isTokenExpiring |-> WillExpireSoon(newToken, WarningMinutes, ms),
          timeUntilExpiration |-> GetTimeUntilExpiration(newToken, ms)]
    ELSE [storage |-> s.storage, token |-> Null, user |-> Null,
          isAuthenticated |-> FALSE, isTokenExpiring |-> FALSE,
          timeUntilExpiration |-> 0]

UpdateAuthState(s, newToken, ms) ==
    IF newToken # Null
    THEN [storage |-> newToken, token |-> newToken,
          user |-> DecodeUserFromToken(newToken),
          isAuthenticated |-> TRUE,
          isTokenExpiring |-> WillExpireSoon(newToken, WarningMinutes, ms),
          timeUntilExpiration |-> GetTimeUntilExpiration(newToken, ms)]
    ELSE [storage |-> Null, token |-> Null, user |-> Null,
          isAuthenticated |-> FALSE, isTokenExpiring |-> FALSE,
          timeUntilExpiration |-> 0]

LogoutOp(s, ms) == UpdateAuthState(s, Null, ms)

\* Mutant of CheckTokenExpiration: the expired branch is missing.
CheckTokenExpirationNoLogout(s, t, ms) ==
    [s EXCEPT !.isTokenExpiring = WillExpireSoon(t, WarningMinutes, ms),
              !.timeUntilExpiration = GetTimeUntilExpiration(t, ms)]

\* checkTokenExpiration of the watchdog effect, closed over token t.
CheckTokenExpiration(s, t, ms) ==
    IF IsTokenExpired(t, ms) THEN LogoutOp(s, ms)
    ELSE [s EXCEPT !.isTokenExpiring = WillExpireSoon(t, WarningMinutes, ms),
                   !.timeUntilExpiration = GetTimeUntilExpiration(t, ms)]

NoInterval == [on |-> FALSE, tok |-> Null, due |-> 0]
SetInterval(t, ms, period) == [on |-> TRUE, tok |-> t, due |-> ms + period]

(***************************************************************************)
(* Effects.  React runs an effect again after a render in which one of its  *)
(* dependencies changed; pending effects are flushed before the next event  *)
(* is handled.                                                              *)
(***************************************************************************)
WatchdogStale == wdDeps # token
ModalStale == mdDeps # <<isTokenExpiring, token>>
Pending == mounted /\ (WatchdogStale \/ ModalStale)
Idle == mounted /\ ~Pending

Did(op) == [op |-> op, success |-> TRUE, error |-> ""]
Failed(op, error) == [op |-> op, success |-> FALSE, error |-> error]

\* updateCountdown of the modal effect, closed over token t.
UpdateCountdown(s, t, ms) ==
    IF GetTimeUntilExpiration(t, ms) <= 0 THEN LogoutOp(s, ms) ELSE s

\* timerLogouts after an interval callback that did / did not call logout().
CountTimerLogout(called) ==
    IF called /\ timerLogouts < MaxTimerLogouts THEN timerLogouts + 1 ELSE timerLogouts

Init ==
    /\ now = StartMs
    /\ advances = 0
    /\ storage \in ServerTokens \cup {Null}
    /\ token = storage
    /\ user = Null
    /\ isAuthenticated = FALSE
    /\ isTokenExpiring = FALSE
    /\ timeUntilExpiration = 0
    /\ mounted = FALSE
    /\ wdDeps = Null
    /\ interval = NoInterval
    /\ mdDeps = <<FALSE, Null>>
    /\ modalInterval = NoInterval
    /\ countdown = 0
    /\ inflight = 0
    /\ formInflight = 0
    /\ guard = [table |-> "none", view |-> "none", replace |-> FALSE]
    /\ last = Did("init")
    /\ lastCheck = StartMs
    /\ timerLogouts = 0
    /\ screen = NoScreen

\* The init effect of AuthProvider.
InitEffect(s, ms) ==
    LET storedToken == s.storage IN
    IF storedToken # Null /\ ~IsTokenExpired(storedToken, ms)
    THEN UpdateAuthState(s, storedToken, ms)
    ELSE IF storedToken # Null THEN [s EXCEPT !.storage = Null]
    ELSE s

\* The two effects of AuthProvider on the first commit, in declaration order:
\* the watchdog effect (closed over the initial token state), then the init effect.
MountEffects(s, ms) ==
    InitEffect(IF s.token # Null THEN CheckTokenExpiration(s, s.token, ms) ELSE s, ms)

\* First commit: the modal's effect returns at once (isTokenExpiring is
\* false), then the provider's effects run.
Mount ==
    /\ ~mounted
    /\ SetSess(MountEffects(Sess, now))
    /\ interval' = IF token # Null
                   THEN SetInterval(token, now, WatchdogPeriodMs) ELSE NoInterval
    /\ mounted' = TRUE
    /\ wdDeps' = token
    /\ mdDeps' = <<isTokenExpiring, token>>
    /\ lastCheck' = now
    /\ last' = Did("mount")
    /\ UNCHANGED <<now, advances, modalInterval, countdown, inflight, formInflight,
                   guard, timerLogouts, screen>>

\* Session state after the effects of a later commit: the modal's effect
\* (child) first, then the provider's watchdog effect, each closed over the
\* rendered values.
EffectsState(s, ms) ==
    LET s1 == IF ModalStale /\ s.isTokenExpiring
              THEN UpdateCountdown(s, s.token, ms) ELSE s
    IN IF WatchdogStale /\ s.token # Null
       THEN CheckTokenExpiration(s1, s.token, ms) ELSE s1

FlushEffects ==
    /\ Pending
    /\ SetSess(EffectsState(Sess, now))
    /\ modalInterval' = IF ~ModalStale THEN modalInterval
                        ELSE IF isTokenExpiring
                             THEN SetInterval(token, now, CountdownPeriodMs)
                             ELSE NoInterval
    /\ countdown' = IF ModalStale /\ isTokenExpiring
                    THEN GetTimeUntilExpiration(token, now) ELSE countdown
    /\ interval' = IF ~WatchdogStale THEN interval
                   ELSE IF token # Null
                        THEN SetInterval(token, now, WatchdogPeriodMs)
                        ELSE NoInterval
    /\ wdDeps' = token
    /\ mdDeps' = <<isTokenExpiring, token>>
    /\ lastCheck' = IF WatchdogStale /\ token # Null THEN now ELSE lastCheck
    /\ last' = Did("effects")
    /\ UNCHANGED <<now, advances, mounted, inflight, formInflight, guard,
                   timerLogouts, screen>>

\* Mutant of Tick: the callback re-arms the timer and checks nothing.
TickChecksNothing ==
    /\ Idle
    /\ interval.on
    /\ now >= interval.due
    /\ interval' = [interval EXCEPT !.due = now + WatchdogPeriodMs]
    /\ last' = Did("tick")
    /\ UNCHANGED <<now, advances, storage, token, user, isAuthenticated,
                   isTokenExpiring, timeUntilExpiration, mounted, wdDeps, mdDeps,
                   modalInterval, countdown, inflight, formInflight, guard,
                   lastCheck, timerLogouts, screen>>

\* The watchdog's interval callback: runs when the interval is due and has
\* not been cleared.
WatchdogCallback ==
    /\ mounted
    /\ interval.on
    /\ now >= interval.due
    /\ SetSess(CheckTokenExpiration(Sess, interval.tok, now))
    /\ timerLogouts' = CountTimerLogout(IsTokenExpired(interval.tok, now))
    /\ interval' = [interval EXCEPT !.due = now + WatchdogPeriodMs]
    /\ lastCheck' = now
    /\ last' = Did("tick")
    /\ UNCHANGED <<now, advances, mounted, wdDeps, mdDeps, modalInterval, countdown,
                   inflight, formInflight, guard, screen>>

\* The watchdog's callback, run after React has handled the previous event
\* (commit and effects).
Tick == Idle /\ WatchdogCallback

\* The modal's interval callback: runs when the interval is due and has not
\* been cleared.
CountdownCallback ==
    /\ mounted
    /\ modalInterval.on
    /\ now >= modalInterval.due
    /\ SetSess(UpdateCountdown(Sess, modalInterval.tok, now))
    /\ timerLogouts' = CountTimerLogout(GetTimeUntilExpiration(modalInterval.tok, now) <= 0)
    /\ countdown' = GetTimeUntilExpiration(modalInterval.tok, now)
    /\ modalInterval' = [modalInterval EXCEPT !.due = now + CountdownPeriodMs]
    /\ last' = Did("modaltick")
    /\ UNCHANGED <<now, advances, mounted, wdDeps, mdDeps, interval, inflight,
                   formInflight, guard, lastCheck, screen>>

\* The modal's callback, run after React has handled the previous event.
ModalTick == Idle /\ CountdownCallback

Advance(d) ==
    /\ Idle
    /\ advances < MaxAdvances
    /\ now' = now + d
    /\ advances' = advances + 1
    /\ last' = Did("advance")
    /\ UNCHANGED <<storage, token, user, isAuthenticated, isTokenExpiring,
                   timeUntilExpiration, mounted, wdDeps, interval, mdDeps,
                   modalInterval, countdown, inflight, formInflight, guard,
                   lastCheck, timerLogouts, screen>>

(***************************************************************************)
(* AuthProvider.login: the request, and the handling of its response        *)
(***************************************************************************)
Statuses == {400, 401, 500}
Messages == {Absent, "Invalid credentials"}

\* What axios.post resolves or rejects with.
Responses ==
    {[kind |-> "network", status |-> 0, message |-> Absent, token |-> Null]}
    \cup {[kind |-> "http", status |-> st, message |-> m, token |-> Null] :
             st \in Statuses, m \in Messages}
    \cup {[kind |-> "ok", status |-> 200, message |-> Absent, token |-> t] :
             t \in ServerTokens \cup {Null}}

LoginSucceeds(resp) == resp.kind = "ok" /\ resp.token # Null

\* The value login() resolves to.
LoginResult(resp) ==
    IF LoginSucceeds(resp) THEN Did("login")
    ELSE IF resp.kind = "ok" THEN Failed("login", "Invalid response from server")
    ELSE Failed("login", Or(resp.message, "Login failed"))

\* Mutant of LoginState: a failed login clears the session.
LoginStateClearsOnFailure(s, resp, ms) ==
    IF LoginSucceeds(resp) THEN UpdateAuthState(s, resp.token, ms) ELSE LogoutOp(s, ms)

\* The session state login() leaves.
LoginState(s, resp, ms) ==
    IF LoginSucceeds(resp) THEN UpdateAuthState(s, resp.token, ms) ELSE s

LoginCall ==
    /\ Idle
    /\ inflight < MaxInflight
    /\ inflight' = inflight + 1
    /\ last' = Did("loginCall")
    /\ UNCHANGED <<now, advances, storage, token, user, isAuthenticated,
                   isTokenExpiring, timeUntilExpiration, mounted, wdDeps, interval,
                   mdDeps, modalInterval, countdown, formInflight, guard, lastCheck,
                   timerLogouts, screen>>

\* The continuation of login() after the awaited request settles.
LoginSettled(resp) ==
    /\ mounted
    /\ inflight > 0
    /\ inflight' = inflight - 1
    /\ SetSess(LoginState(Sess, resp, now))
    /\ timerLogouts' = IF LoginSucceeds(resp) THEN 0 ELSE timerLogouts
    /\ last' = LoginResult(resp)
    /\ UNCHANGED <<now, advances, mounted, wdDeps, interval, mdDeps, modalInterval,
                   countdown, formInflight, guard, lastCheck, screen>>

\* The continuation, run after React has handled the previous event.
LoginResponse(resp) == Idle /\ LoginSettled(resp)

\* logout() called by the user (Navbar 'Sign out', modal 'Logout Now').  It
\* calls updateAuthState(null) and nothing else: no navigation, and
\* RequireAuth reads no provider state, so no route table is evaluated.
Logout ==
    /\ Idle
    /\ SetSess(LogoutOp(Sess, now))
    /\ last' = Did("logout")
    /\ UNCHANGED <<now, advances, mounted, wdDeps, interval, mdDeps, modalInterval,
                   countdown, inflight, formInflight, guard, lastCheck, timerLogouts, screen>>

(***************************************************************************)
(* AuthProvider.refreshToken                                                *)
(***************************************************************************)
\* Mutant of RefreshedToken: the new exp is never before the previous one.
RefreshedTokenNeverShorter(t, ms) ==
    Tok(3, "ok", "ok",
        [DecodeToken(t) EXCEPT
            !.exp = Max(DecodeToken(t).exp,
                        (ms \div MsPerSecond) + RefreshMinutes * SecondsPerMinute)])

\* Mutant of RefreshedToken: the 30 minutes are added to the previous exp.
RefreshedTokenFromExp(t, ms) ==
    Tok(3, "ok", "ok",
        [DecodeToken(t) EXCEPT !.exp = DecodeToken(t).exp + RefreshMinutes * SecondsPerMinute])

RefreshedToken(t, ms) ==
    Tok(3, "ok", "ok",
        [DecodeToken(t) EXCEPT !.exp = (ms \div MsPerSecond) + RefreshMinutes * SecondsPerMinute])

\* Mutant of RefreshOutcome: an undecodable token ends the session.
RefreshOutcomeLogsOut(s, ms) ==
    IF s.token = Null
    THEN [sess |-> s, result |-> Failed("refresh", "No token to refresh")]
    ELSE IF DecodeToken(s.token) = Null
    THEN [sess |-> LogoutOp(s, ms), result |-> Failed("refresh", "Invalid token format")]
    ELSE IF s.token.hdr # "ok"
    THEN [sess |-> s, result |-> Failed("refresh", "Failed to refresh token")]
    ELSE [sess |-> UpdateAuthState(s, RefreshedToken(s.token, ms), ms),
          result |-> Did("refresh")]

RefreshOutcome(s, ms) ==
    IF s.token = Null
    THEN [sess |-> s, result |-> Failed("refresh", "No token to refresh")]
    ELSE IF DecodeToken(s.token) = Null
    THEN [sess |-> s, result |-> Failed("refresh", "Invalid token format")]
    ELSE IF s.token.hdr # "ok"
    THEN [sess |-> s, result |-> Failed("refresh", "Failed to refresh token")]
    ELSE [sess |-> UpdateAuthState(s, RefreshedToken(s.token, ms), ms),
          result |-> Did("refresh")]

\* refreshToken() of the latest render, called by any consumer of the context.
RefreshCall ==
    /\ mounted
    /\ LET out == RefreshOutcome(Sess, now)
       IN /\ SetSess(out.sess)
          /\ last' = out.result
          /\ timerLogouts' = IF out.result.success THEN 0 ELSE timerLogouts
    /\ UNCHANGED <<now, advances, mounted, wdDeps, interval, mdDeps, modalInterval,
                   countdown, inflight, formInflight, guard, lastCheck, screen>>

\* refreshToken() called from an event handler (the modal's 'Stay Logged In').
RefreshToken == Idle /\ RefreshCall

(***************************************************************************)
(* Route tables: App.js (RequireAuth) and routes.tsx (AppRoutes)            *)
(***************************************************************************)
Paths == {"/dashboard", "/transactions", "/users", "/login", "/"}
ProtectedViews == {"/dashboard", "/transactions", "/users"}
Tables == {"App", "AppRoutes"}

Render(stored) == [outcome |-> "render", replace |-> FALSE, storage |-> stored]
Redirect(stored) == [outcome |-> "redirect", replace |-> TRUE, storage |-> stored]

\* RequireAuth: what it renders and what it leaves in localStorage.
RequireAuth(stored, ms) ==
    IF stored = Null THEN Redirect(stored)
    ELSE IF stored.segs < 2 \/ stored.pay # "ok" THEN Redirect(Null)
    ELSE IF Truthy(stored.claims.exp) /\ stored.claims.exp < (ms \div MsPerSecond)
    THEN Redirect(Null)
    ELSE Render(stored)

\* <Routes> of App.js AppContent ("/" shows the dashboard).
AppTable(path, stored, ms) ==
    IF path \in ProtectedViews \cup {"/"} THEN RequireAuth(stored, ms)
    ELSE Render(stored)

\* <Routes> of routes.tsx AppRoutes.
AppRoutesTable(path, stored, ms) ==
    IF path \in {"/login"} \cup ProtectedViews THEN Render(stored)
    ELSE Redirect(stored)

RouteEval(table, path, stored, ms) ==
    IF table = "App" THEN AppTable(path, stored, ms) ELSE AppRoutesTable(path, stored, ms)

\* What is on screen after the evaluation.
GuardView(table, path, stored, ms) ==
    LET r == RouteEval(table, path, stored, ms) IN
    [table |-> table,
     view |-> IF r.outcome = "redirect" THEN "login"
              ELSE IF path = "/login" THEN "public" ELSE "protected",
     replace |-> r.replace]

\* The user navigates to a path; the route table in use is evaluated.
Navigate(table, path) ==
    /\ Idle
    /\ guard' = GuardView(table, path, storage, now)
    /\ storage' = RouteEval(table, path, storage, now).storage
    /\ last' = Did("navigate")
    /\ UNCHANGED <<now, advances, token, user, isAuthenticated, isTokenExpiring,
                   timeUntilExpiration, mounted, wdDeps, interval, mdDeps,
                   modalInterval, countdown, inflight, formInflight, lastCheck,
                   timerLogouts, screen>>

(***************************************************************************)
(* Login form (Login.tsx handleSubmit)                                      *)
(***************************************************************************)
\* The message the form shows.
FormError(resp) ==
    IF LoginSucceeds(resp) THEN ""
    ELSE IF resp.kind = "ok" THEN "Invalid response from server"
    ELSE IF resp.kind = "http"
    THEN IF resp.status = 401 THEN "Invalid username/email or password"
         ELSE IF resp.status = 400 THEN "Please check your input and try again"
         ELSE IF resp.message # Absent THEN resp.message
         ELSE "Login failed. Please try again."
    ELSE "Unable to connect to server. Please check your connection."

\* localStorage after the form handled the response.
FormStorage(stored, resp) == IF LoginSucceeds(resp) THEN resp.token ELSE stored

FormSubmit ==
    /\ Idle
    /\ formInflight < MaxSubmits
    /\ formInflight' = formInflight + 1
    /\ last' = Did("formSubmit")
    /\ UNCHANGED <<now, advances, storage, token, user, isAuthenticated,
                   isTokenExpiring, timeUntilExpiration, mounted, wdDeps, interval,
                   mdDeps, modalInterval, countdown, inflight, guard, lastCheck,
                   timerLogouts, screen>>

\* On success the form stores the token and navigates to /dashboard, which
\* evaluates the route table in use.
FormResponse(resp, table) ==
    /\ Idle
    /\ formInflight > 0
    /\ formInflight' = formInflight - 1
    /\ LET st == FormStorage(storage, resp)
       IN IF LoginSucceeds(resp)
          THEN /\ guard' = GuardView(table, "/dashboard", st, now)
               /\ storage' = RouteEval(table, "/dashboard", st, now).storage
               /\ last' = Did("form")
          ELSE /\ guard' = guard
               /\ storage' = st
               /\ last' = Failed("form", FormError(resp))
    /\ UNCHANGED <<now, advances, token, user, isAuthenticated, isTokenExpiring,
                   timeUntilExpiration, mounted, wdDeps, interval, mdDeps,
                   modalInterval, countdown, inflight, lastCheck, timerLogouts, screen>>

(***************************************************************************)
(* userPermissions and the screens that consult it                          *)
(***************************************************************************)
\* Mutant of CanRead: every role that is present may read.
CanReadAnyRole(role) == role # Absent

CanRead(role) == role \in {"Admin", "DataEntryUser", "Observer"}

CanWrite(role) == role \in {"Admin", "DataEntryUser"}

CanUpdate(role) == role \in {"Admin", "DataEntryUser"}

CanDelete(role) == role \in {"Admin", "DataEntryUser"}

CanManageUsers(role) == role = "Admin"

IsObserver(role) == role = "Observer"

\* The capabilities userPermissions grants a role.
Capabilities(role) ==
    (IF CanRead(role) THEN {"read"} ELSE {})
    \cup (IF CanWrite(role) THEN {"write"} ELSE {})
    \cup (IF CanUpdate(role) THEN {"update"} ELSE {})
    \cup (IF CanDelete(role) THEN {"delete"} ELSE {})
    \cup (IF CanManageUsers(role) THEN {"manageUsers"} ELSE {})

\* user?.role as the components read it from useAuth().
RoleOf(u) == IF u = Null THEN Absent ELSE u.role

\* TransactionList with at least one row, once its data has loaded.
TransactionListOffers(role) ==
    (IF IsObserver(role) THEN {"readOnlyNotice"} ELSE {})
    \cup (IF CanWrite(role) THEN {"form"} ELSE {})
    \cup (IF ~CanWrite(role) /\ ~IsObserver(role) THEN {"noPermissionNotice"} ELSE {})
    \cup (IF (CanWrite(role) \/ CanDelete(role)) /\ CanWrite(role) THEN {"Edit"} ELSE {})
    \cup (IF (CanWrite(role) \/ CanDelete(role)) /\ CanDelete(role) THEN {"Delete"} ELSE {})

\* UserList once its data has loaded.
UserListOffers(role) ==
    IF ~CanManageUsers(role) THEN {"accessDenied"} ELSE {"userManagement"}

\* AppContent: isAdmin read from the stored token's namespaced role claim.
IsAdminClaim(stored) ==
    /\ stored # Null
    /\ stored.segs >= 2
    /\ stored.pay = "ok"
    /\ stored.claims.nsRole = "Admin"

\* AppContent: userProfile read from the stored token; routes.tsx has none.
UserProfile(table, stored) ==
    IF table # "App" \/ stored = Null THEN Null
    ELSE IF stored.segs < 2 \/ stored.pay # "ok" THEN Null
    ELSE [userName |-> Or(stored.claims.nsName, ""),
          email |-> Or(stored.claims.email, Or(stored.claims.nsEmail, "")),
          roleName |-> Or(stored.claims.nsRole, "")]

\* The Users link of the navigation around the screen: AppContent's app bar
\* around the routes of App.js, Navbar for the routes of routes.tsx.
NavOffers(table, role, stored) ==
    IF table = "App"
    THEN IF IsAdminClaim(stored) THEN {"UsersLink"} ELSE {}
    ELSE IF CanManageUsers(role) THEN {"UsersLink"} ELSE {}

\* Requests the mount effect of the screen sends.
MountRequests(path) ==
    IF path = "/users" THEN {"/api/User", "/api/Roles"}
    ELSE {"/api/Transaction", "/api/Category"}

Screens == {"/transactions", "/users"}

\* The route renders the screen: its mount effect sends its requests and,
\* with the data loaded, it renders what the role of useAuth().user allows.
OpenScreen(table, path) ==
    /\ Idle
    /\ RouteEval(table, path, storage, now).outcome = "render"
    /\ screen' = [view |-> path, table |-> table, role |-> RoleOf(user),
                  caps |-> Capabilities(RoleOf(user)),
                  offers |-> (IF path = "/users" THEN UserListOffers(RoleOf(user))
                              ELSE TransactionListOffers(RoleOf(user)))
                             \cup NavOffers(table, RoleOf(user), storage),
                  requests |-> MountRequests(path),
                  profile |-> UserProfile(table, storage)]
    /\ guard' = GuardView(table, path, storage, now)
    /\ last' = Did("open")
    /\ UNCHANGED <<now, advances, storage, token, user, isAuthenticated,
                   isTokenExpiring, timeUntilExpiration, mounted, wdDeps, interval,
                   mdDeps, modalInterval, countdown, inflight, formInflight,
                   lastCheck, timerLogouts>>

(***************************************************************************)
(* Specifications                                                           *)
(***************************************************************************)
\* The Session Store with its watchdog and the expiration modal.
Next ==
    \/ Mount
    \/ FlushEffects
    \/ Tick
    \/ ModalTick
    \/ \E d \in Deltas : Advance(d)
    \/ LoginCall
    \/ \E resp \in Responses : LoginResponse(resp)
    \/ Logout
    \/ RefreshToken

Spec == Init /\ [][Next]_vars

\* The application around the store: the Login form and the route tables.
NextApp ==
    \/ Mount
    \/ FlushEffects
    \/ Tick
    \/ ModalTick
    \/ \E d \in AppDeltas : Advance(d)
    \/ Logout
    \/ RefreshToken
    \/ \E table \in Tables, path \in Paths : Navigate(table, path)
    \/ FormSubmit
    \/ \E resp \in Responses, table \in Tables : FormResponse(resp, table)

AppSpec == Init /\ [][NextApp]_vars

\* A session left to its timers: no further login or refreshToken.
NextQuiet ==
    \/ Mount
    \/ FlushEffects
    \/ Tick
    \/ ModalTick
    \/ \E d \in Deltas : Advance(d)
    \/ Logout

\* The browser runs a due interval callback, and React flushes pending effects.
LiveSpec ==
    /\ Init
    /\ [][NextQuiet]_vars
    /\ WF_vars(Mount)
    /\ WF_vars(FlushEffects)
    /\ WF_vars(Tick)
    /\ WF_vars(ModalTick)

\* A session left to its timers, where interval callbacks that are due
\* together run back to back: the state updates of a timer callback are
\* batched and rendered in a later task, so the effect cleanup that clears
\* the intervals has not run when the next due callback starts.
NextTimers ==
    \/ Mount
    \/ FlushEffects
    \/ WatchdogCallback
    \/ CountdownCallback
    \/ \E d \in Deltas : Advance(d)

TimerSpec == Init /\ [][NextTimers]_vars

\* Concurrent logins, where the continuation of a login runs as soon as its
\* request settles: the state updates of the previous continuation are
\* rendered in a later task, so its effects may still be pending.
NextLogin ==
    \/ Mount
    \/ FlushEffects
    \/ LoginCall
    \/ \E resp \in Responses : LoginSettled(resp)

LoginSpec == Init /\ [][NextLogin]_vars

\* Process starts and logins at the instants where the codec's answers change:
\* the first and last millisecond of a token's exp second and the
\* milliseconds next to them, and 6, 5.5 and 5 minutes before an exp.
AroundSecond(exp) ==
    {exp * MsPerSecond - 1, exp * MsPerSecond,
     exp * MsPerSecond + 999, (exp + 1) * MsPerSecond}

AroundWarning(exp) ==
    {exp * MsPerSecond - 360000, exp * MsPerSecond - 359999,
     exp * MsPerSecond - 330000, exp * MsPerSecond - 300001,
     exp * MsPerSecond - 300000, exp * MsPerSecond - 299999}

CodecTimes ==
    {StartMs} \cup AroundSecond(720) \cup AroundSecond(900) \cup AroundWarning(1200)

InitCodec ==
    /\ now \in CodecTimes
    /\ advances = 0
    /\ storage \in ServerTokens \cup {Null}
    /\ token = storage
    /\ user = Null
    /\ isAuthenticated = FALSE
    /\ isTokenExpiring = FALSE
    /\ timeUntilExpiration = 0
    /\ mounted = FALSE
    /\ wdDeps = Null
    /\ interval = NoInterval
    /\ mdDeps = <<FALSE, Null>>
    /\ modalInterval = NoInterval
    /\ countdown = 0
    /\ inflight = 0
    /\ formInflight = 0
    /\ guard = [table |-> "none", view |-> "none", replace |-> FALSE]
    /\ last = Did("init")
    /\ lastCheck = now
    /\ timerLogouts = 0
    /\ screen = NoScreen

CodecSpec == InitCodec /\ [][NextLogin]_vars

\* The store's operations called on the session state a commit leaves, also
\* before the effects of that commit have run.  The initial states are the
\* states right after a login whose response carried a token of any shape.
Cleared == [storage |-> Null, token |-> Null, user |-> Null,
            isAuthenticated |-> FALSE, isTokenExpiring |-> FALSE,
            timeUntilExpiration |-> 0]

InitCall ==
    /\ now = StartMs
    /\ advances = 0
    /\ \E t \in AnyTokens :
          LET s == UpdateAuthState(Cleared, t, StartMs)
          IN /\ storage = s.storage
             /\ token = s.token
             /\ user = s.user
             /\ isAuthenticated = s.isAuthenticated
             /\ isTokenExpiring = s.isTokenExpiring
             /\ timeUntilExpiration = s.timeUntilExpiration
    /\ mounted = TRUE
    /\ wdDeps = Null
    /\ interval = NoInterval
    /\ mdDeps = <<FALSE, Null>>
    /\ modalInterval = NoInterval
    /\ countdown = 0
    /\ inflight = 0
    /\ formInflight = 0
    /\ guard = [table |-> "none", view |-> "none", replace |-> FALSE]
    /\ last = Did("login")
    /\ lastCheck = StartMs
    /\ timerLogouts = 0
    /\ screen = NoScreen

NextCall ==
    \/ RefreshCall
    \/ FlushEffects
    \/ Tick
    \/ ModalTick
    \/ \E d \in Deltas : Advance(d)

CallSpec == InitCall /\ [][NextCall]_vars

\* The screens that consult userPermissions, opened in a session whose token
\* carries a role in the short form, the namespaced form, both or neither.
TShortAdmin == Tok(3, "ok", "ok", Claims(1200, "Admin", Absent, Absent, "a@x"))
TManager    == Tok(3, "ok", "ok", Claims(1200, Absent, "Manager", Absent, "m@x"))
TUser       == Tok(3, "ok", "ok", Claims(1200, "User", Absent, Absent, "u@x"))
TLowerAdmin == Tok(3, "ok", "ok", Claims(1200, Absent, "admin", Absent, "a@x"))
TNoRole     == Tok(3, "ok", "ok", Claims(1200, Absent, Absent, Absent, "n@x"))
TBothRoles  == Tok(3, "ok", "ok", Claims(1200, "Admin", "Observer", "s@x", "b@x"))

RoleTokens ==
    {TValid10, TValid5, TValid2, TExpired,
     TShortAdmin, TManager, TUser, TLowerAdmin, TNoRole, TBothRoles}

InitScreen ==
    /\ now = StartMs
    /\ advances = 0
    /\ \E t \in RoleTokens :
          LET s == UpdateAuthState(Cleared, t, StartMs)
          IN /\ storage = s.storage
             /\ token = s.token
             /\ user = s.user
             /\ isAuthenticated = s.isAuthenticated
             /\ isTokenExpiring = s.isTokenExpiring
             /\ timeUntilExpiration = s.timeUntilExpiration
    /\ mounted = TRUE
    /\ wdDeps = Null
    /\ interval = NoInterval
    /\ mdDeps = <<FALSE, Null>>
    /\ modalInterval = NoInterval
    /\ countdown = 0
    /\ inflight = 0
    /\ formInflight = 0
    /\ guard = [table |-> "none", view |-> "none", replace |-> FALSE]
    /\ last = Did("login")
    /\ lastCheck = StartMs
    /\ timerLogouts = 0
    /\ screen = NoScreen

NextScreen ==
    \/ FlushEffects
    \/ Tick
    \/ \E d \in AppDeltas : Advance(d)
    \/ Logout
    \/ \E table \in Tables, path \in Screens : OpenScreen(table, path)

ScreenSpec == InitScreen /\ [][NextScreen]_vars

(***************************************************************************)
(* Properties                                                               *)
(***************************************************************************)
SessionVars == <<storage, token, user, isAuthenticated, isTokenExpiring,
                 timeUntilExpiration>>

LoggedOutState ==
    /\ storage = Null
    /\ token = Null
    /\ user = Null
    /\ ~isAuthenticated
    /\ ~isTokenExpiring
    /\ timeUntilExpiration = 0

\* Written out from the token's fields: decodable, carries exp, exp not
\* before the second that contains millisecond ms.
ValidAt(t, ms) ==
    /\ t # Null
    /\ t.segs >= 2
    /\ t.pay = "ok"
    /\ t.claims.exp > 0
    /\ t.claims.exp * 1000 + 999 >= ms

\* C1: once the provider is mounted, isAuthenticated is true if and only if
\* a token is present and that token was not expired (decodable, carries
\* exp, exp not before now) at the store's most recent expiry check.
C1_AuthIffValidAtLastCheck ==
    mounted => (isAuthenticated <=> (token # Null /\ ValidAt(token, lastCheck)))

\* C2: after initialization the durable token equals SessionState.token, and
\* the key is absent exactly when the session is LoggedOut.
C2_StorageIsSessionToken ==
    mounted => /\ storage = token
               /\ (storage = Null <=> ~isAuthenticated)

\* C3: a login that fails (network error, non-2xx, or 2xx without a token)
\* leaves the session state and the durable token unchanged and resolves to
\* {success: false, error}.
C3_FailedLoginChangesNothing ==
    [][\A resp \in Responses :
          (/\ last'.op = "login"
           /\ (resp.kind # "ok" \/ resp.token = Null)
           /\ LoginResponse(resp))
          => /\ UNCHANGED SessionVars
             /\ last'.op = "login"
             /\ last'.success = FALSE
             /\ last'.error # ""]_vars

C3_Witness ==
    /\ last.op = "login"
    /\ ~last.success
    /\ last.error = "Invalid credentials"
    /\ isAuthenticated
    /\ storage = TValid10

\* C4: a success response carrying token T leaves, in the same step, T in
\* durable storage and in SessionState.token, user decoded from T (role is
\* T's role claim, the namespaced form first), the expiry flags recomputed
\* from T, isAuthenticated true, and a success result.
C4_LoginStoresToken ==
    [][\A resp \in Responses :
          (/\ last'.op = "login"
           /\ resp.kind = "ok"
           /\ resp.token # Null
           /\ LoginResponse(resp))
          => LET T == resp.token
                 decodable == T.segs >= 2 /\ T.pay = "ok"
                 hasExp == decodable /\ T.claims.exp > 0
                 left == T.claims.exp * 1000 - now
             IN /\ storage' = T
                /\ token' = T
                /\ isAuthenticated'
                /\ last' = [op |-> "login", success |-> TRUE, error |-> ""]
                /\ IF decodable
                   THEN /\ user' # Null
                        /\ user'.role = IF T.claims.nsRole # Absent
                                        THEN T.claims.nsRole ELSE T.claims.role
                        /\ user'.exp = T.claims.exp
                   ELSE user' = Null
                /\ IF hasExp
                   THEN /\ isTokenExpiring' = (left <= 5 * 60 * 1000)
                        /\ timeUntilExpiration' = IF left < 0 THEN 0 ELSE left \div 60000
                   ELSE /\ ~isTokenExpiring'
                        /\ timeUntilExpiration' = 0]_vars

C4_Witness ==
    /\ last = [op |-> "login", success |-> TRUE, error |-> ""]
    /\ storage = TExpired
    /\ token = TExpired
    /\ isAuthenticated
    /\ user # Null
    /\ user.role = "Admin"

\* C5: logout, from any session state, removes the durable token and clears
\* token, user, isAuthenticated, isTokenExpiring and timeUntilExpiration; a
\* logout in the logged-out state changes nothing.
C5_LogoutClearsAndIsIdempotent ==
    [][Logout => /\ LoggedOutState'
                 /\ (LoggedOutState => UNCHANGED SessionVars)]_vars

\* A logout that ended a session (the watchdog last ran with its token),
\* seen before the effects of that commit ran.
C5_Witness ==
    /\ last.op = "logout"
    /\ LoggedOutState
    /\ wdDeps # Null
    /\ interval.on

\* C6: on process start a stored token that is present and not expired
\* leaves the store LoggedIn, isTokenExpiring true exactly when it expires
\* within 5 minutes and timeUntilExpiration the whole minutes left (10
\* minutes left: not expiring; 2 minutes left: expiring, 2); an expired or
\* undecodable stored token leaves the store LoggedOut and the entry removed.
C6_StartFromStoredToken ==
    [][Mount =>
         LET S == storage
             left == S.claims.exp * 1000 - now
         IN /\ (S # Null /\ ValidAt(S, now))
               => /\ isAuthenticated'
                  /\ token' = S
                  /\ storage' = S
                  /\ user' # Null
                  /\ isTokenExpiring' = (left <= 5 * 60 * 1000)
                  /\ timeUntilExpiration' = left \div 60000
            /\ (S # Null /\ ~ValidAt(S, now))
               => /\ ~isAuthenticated'
                  /\ token' = Null
                  /\ storage' = Null
            /\ (S = TValid10 /\ now = StartMs)
               => /\ ~isTokenExpiring'
                  /\ timeUntilExpiration' = 10
            /\ (S = TValid2 /\ now = StartMs)
               => /\ isTokenExpiring'
                  /\ timeUntilExpiration' = 2]_vars

C6_Witness ==
    /\ last.op = "mount"
    /\ isAuthenticated
    /\ token = TValid2
    /\ isTokenExpiring
    /\ timeUntilExpiration = 2

C8_ExpiredSessionEnds ==
    (/\ isAuthenticated
     /\ token # Null
     /\ ~ValidAt(token, now)
     /\ (WatchdogStale \/ (Idle /\ interval.on /\ now >= interval.due)))
    ~> (token = Null /\ ~isAuthenticated /\ storage = Null)

\* The watchdog's callback ended a session the modal never warned about.
C8_Witness ==
    /\ last.op = "tick"
    /\ LoggedOutState
    /\ interval.tok = TValid10
    /\ ~modalInterval.on
    /\ mdDeps[1] = FALSE

\* C9: in every route table a protected view is rendered only when a token
\* is present, decodable and not expired; otherwise the navigation ends in a
\* redirect to /login that replaces the history entry, and a malformed or
\* expired stored token is removed.
C9_ProtectedViewsNeedValidToken ==
    last.op \in {"navigate", "form"}
    => /\ guard.view = "protected" => ValidAt(storage, now)
       /\ guard.view = "login" => (guard.replace /\ storage = Null)

\* C10: RequireAuth never renders a protected view for a token whose
\* payload has no exp claim (isTokenExpired is true of it).
C10_NoExpIsNotRendered ==
    (/\ last.op \in {"navigate", "form"}
     /\ guard.table = "App"
     /\ guard.view = "protected")
    => ~(DecodeToken(storage) # Null /\ DecodeToken(storage).exp = NoExp)

\* C11: whenever the session goes from authenticated to not authenticated
\* while a protected view is displayed, the route guard is evaluated in that
\* step and the login view replaces the protected view.
C11_LogoutEvictsProtectedView ==
    [][(/\ guard.view = "protected"
        /\ isAuthenticated
        /\ ~isAuthenticated')
       => guard'.view = "login"]_vars

\* C12: refreshToken called without a token, or with a token whose payload
\* cannot be decoded, resolves to a failure and leaves the session state and
\* the durable token unchanged.
C12_RefreshFailureChangesNothing ==
    [][(/\ last'.op = "refresh"
        /\ (token = Null \/ token.segs < 2 \/ token.pay # "ok")
        /\ RefreshCall)
       => /\ UNCHANGED SessionVars
          /\ ~last'.success
          /\ last'.error # ""]_vars

C12_Witness ==
    /\ last = [op |-> "refresh", success |-> FALSE, error |-> "Invalid token format"]
    /\ token = TBadJson
    /\ storage = TBadJson
    /\ isAuthenticated

\* The identity fields of the derived user.
IdentityFields == {"userId", "username", "email", "role"}
OtherClaims == {"userId", "nsUserId", "username", "nsName", "email", "nsEmail",
                "role", "nsRole"}

\* C13 as stated: a successful refreshToken replaces the token with one whose
\* exp is the previous exp claim plus 30 minutes, every other claim and the
\* derived user's identity unchanged, and stores the new token.
C13_RefreshExtendsPreviousExp ==
    [][(/\ last'.op = "refresh"
        /\ last'.success
        /\ RefreshCall)
       => /\ token'.claims.exp = token.claims.exp + 30 * 60
          /\ \A f \in OtherClaims : token'.claims[f] = token.claims[f]
          /\ \A f \in IdentityFields : user'[f] = user[f]
          /\ storage' = token']_vars

\* C13 amended: a successful refreshToken replaces the token with one whose
\* exp is the current time in whole seconds plus 30 minutes, whatever the
\* previous exp claim was; every other claim and the derived user's identity
\* are unchanged, user.exp is the new exp, and the new token is stored.
C13_RefreshSetsExpFromNow ==
    [][(/\ last'.op = "refresh"
        /\ last'.success
        /\ RefreshCall)
       => /\ token'.claims.exp = (now \div 1000) + 30 * 60
          /\ \A f \in OtherClaims : token'.claims[f] = token.claims[f]
          /\ \A f \in IdentityFields : user'[f] = user[f]
          /\ user'.exp = token'.claims.exp
          /\ storage' = token']_vars

\* A refresh one minute after the start of a token that had 10 minutes left.
C13_Witness ==
    /\ last = [op |-> "refresh", success |-> TRUE, error |-> ""]
    /\ now = StartMs + 60 * MsPerSecond
    /\ token.claims.exp = 660 + 30 * 60
    /\ storage = token
    /\ user.role = "Admin"
    /\ user.exp = token.claims.exp

\* C14: a timer is registered without a token only while the cleanup of the
\* commit that removed the token is still pending; every step that removes
\* the token leaves that cleanup pending; the effects that run without a
\* token cancel the watchdog interval; and no interval callback runs in a
\* session without a token.
C14_NoTimerWithoutToken ==
    /\ []((token = Null /\ (interval.on \/ modalInterval.on)) => Pending)
    /\ [][(mounted /\ token # Null /\ token' = Null) => Pending']_vars
    /\ [][(token = Null /\ FlushEffects) => ~interval'.on]_vars
    /\ [][(WatchdogCallback \/ CountdownCallback)
          => (token # Null /\ isAuthenticated)]_vars

\* C15: at any time at most one recurring timer that enforces the expiry is
\* registered for the session.
C15_AtMostOneTimer ==
    ~(interval.on /\ modalInterval.on)

\* u is the identity carried by token t, read off the token's fields: absent
\* for an undecodable payload, else the namespaced claim of each field when
\* the payload has it and the short claim otherwise.
UserOf(u, t) ==
    IF t.segs >= 2 /\ t.pay = "ok"
    THEN /\ u # Null
         /\ u.exp = t.claims.exp
         /\ u.userId = IF t.claims.nsUserId # Absent
                       THEN t.claims.nsUserId ELSE t.claims.userId
         /\ u.username = IF t.claims.nsName # Absent
                         THEN t.claims.nsName ELSE t.claims.username
         /\ u.email = IF t.claims.nsEmail # Absent
                      THEN t.claims.nsEmail ELSE t.claims.email
         /\ u.role = IF t.claims.nsRole # Absent
                     THEN t.claims.nsRole ELSE t.claims.role
    ELSE u = Null

\* C16: each successful login response, whatever the session held before and
\* however many other logins are in flight, leaves SessionState.token, the
\* durable token and the derived user all of that response; and in every
\* state of the mounted store the durable token is SessionState.token and
\* user is the identity of that token.
C16_LastLoginResponseWins ==
    /\ [][\A resp \in Responses :
             (/\ last'.op = "login"
              /\ last'.success
              /\ resp.kind = "ok"
              /\ resp.token # Null
              /\ LoginResponse(resp))
             => /\ token' = resp.token
                /\ storage' = resp.token
                /\ UserOf(user', resp.token)]_vars
    /\ []((mounted /\ token # Null) => (storage = token /\ UserOf(user, token)))

\* The response of one of two logins in flight has replaced the token the
\* watchdog last ran with; the other login is still in flight.
C16_Witness ==
    /\ last = [op |-> "login", success |-> TRUE, error |-> ""]
    /\ inflight = 1
    /\ wdDeps = TValid10
    /\ token = TValid2
    /\ storage = TValid2
    /\ user.role = "Observer"

\* C17: a login response that arrives after the session has moved on while
\* the request was pending (another login, sent no later, has just
\* completed) changes neither the session state nor the durable token.
C17_LateResponseDiscarded ==
    [][\A resp \in Responses :
          (/\ inflight > 0
           /\ last.op = "login"
           /\ last.success
           /\ LoginSettled(resp))
          => UNCHANGED SessionVars]_vars

\* C18: in every state user is absent or is the identity of the current
\* token, and is absent when the token is; every step that changes user
\* leaves it absent or the identity of the token that step leaves.
C18_UserDerivedFromToken ==
    /\ [](user = Null \/ (token # Null /\ UserOf(user, token)))
    /\ [](token = Null => user = Null)
    /\ [][user' # user
          => \/ user' = Null
             \/ (token' # Null /\ UserOf(user', token'))]_vars

\* user after the refresh, at the start, of the token that had 2 minutes left.
C18_Witness ==
    /\ last = [op |-> "refresh", success |-> TRUE, error |-> ""]
    /\ user # Null
    /\ user.exp = 600 + 30 * 60
    /\ user.role = "Observer"
    /\ user.email = "o@x"
    /\ token.claims.exp = user.exp

\* C19: when the auth endpoint rejects a login with a non-2xx status and a
\* body that carries a message, the error reported (the result of login(),
\* the text the Login form shows) is that message, for every status.
C19_ServerMessageVerbatim ==
    [][\A resp \in Responses :
          (/\ last'.op \in {"login", "form"}
           /\ resp.kind = "http"
           /\ resp.message # Absent
           /\ \/ LoginResponse(resp)
              \/ \E table \in Tables : FormResponse(resp, table))
          => /\ ~last'.success
             /\ last'.error = resp.message]_vars

\* A string that is not a JWT: not three segments, or a payload segment that
\* is not base64 of a JSON object.
Malformed(t) == t.segs # 3 \/ t.pay # "ok"

\* C20: for every malformed token decodeToken returns null and
\* isTokenExpired returns true: after the watchdog effect has run its check
\* on a malformed token, the session has been logged out.
C20_MalformedTokenRejected ==
    (/\ last.op = "effects"
     /\ wdDeps # Null
     /\ Malformed(wdDeps))
    => /\ DecodeToken(wdDeps) = Null
       /\ IsTokenExpired(wdDeps, now)
       /\ token = Null

\* Written out from the token's fields: the payload cannot be decoded, or
\* carries no exp, or its exp is before the second that contains ms.
ExpiredAt(t, ms) ==
    \/ t.segs < 2
    \/ t.pay # "ok"
    \/ t.claims.exp = NoExp
    \/ t.claims.exp * 1000 + 999 < ms

\* C21: isTokenExpired is true of a token that cannot be decoded or has no
\* exp, and otherwise exactly when exp is less than the current time in whole
\* seconds: the process start keeps a stored token, and the check the
\* watchdog effect makes after a login keeps the session, exactly when the
\* token is not expired in that sense (exp equal to the current second is kept).
C21_ExpiredExactlyBeforeCurrentSecond ==
    /\ [][(storage # Null /\ Mount)
          => /\ isAuthenticated' = ~ExpiredAt(storage, now)
             /\ (storage' = storage) = ~ExpiredAt(storage, now)]_vars
    /\ [][(token # Null /\ WatchdogStale /\ FlushEffects)
          => (LoggedOutState' = ExpiredAt(token, now))]_vars

\* The process started in the last millisecond of the exp second of the
\* stored token.
C21_Witness ==
    /\ last.op = "mount"
    /\ now = 720999
    /\ isAuthenticated
    /\ storage = TValid2
    /\ token = TValid2

\* The token carries an expiration instant the codec can read.
KnownExp(t) == t.segs >= 2 /\ t.pay = "ok" /\ t.claims.exp # NoExp

\* Milliseconds from ms to the token's expiration instant.
MsLeft(t, ms) == t.claims.exp * 1000 - ms

\* C22 as stated: after a login, the warning flag (willExpireSoon(token, 5))
\* is set exactly when the minutes remaining (getTimeUntilExpiration) are at
\* most 5.
C22_WarningIffFiveMinutesOrLess ==
    (last.op = "login" /\ last.success)
        => (isTokenExpiring <=> timeUntilExpiration <= 5)

\* C22 amended: willExpireSoon(token, 5) is true exactly when the expiration
\* is known and at most 300000 ms away; then the minutes remaining are at
\* most 5.  The minutes remaining are also at most 5 with between 5 and 6
\* minutes left and with an unknown expiration, where the flag is false.
C22_WarningIffWithinFiveMinutesOfMs ==
    (last.op = "login" /\ last.success)
        => /\ isTokenExpiring = (KnownExp(token) /\ MsLeft(token, now) <= 300000)
           /\ isTokenExpiring => timeUntilExpiration <= 5
           /\ (timeUntilExpiration <= 5)
                  = (~KnownExp(token) \/ MsLeft(token, now) < 360000)

\* A login with five and a half minutes left: 5 minutes remaining, no warning.
C22_Witness ==
    /\ last.op = "login"
    /\ last.success
    /\ token = TValid10
    /\ MsLeft(token, now) = 330000
    /\ timeUntilExpiration = 5
    /\ ~isTokenExpiring

\* The capability table.
RoleCapabilities(role) ==
    IF role = "Admin" THEN {"read", "write", "update", "delete", "manageUsers"}
    ELSE IF role = "DataEntryUser" THEN {"read", "write", "update", "delete"}
    ELSE IF role = "Observer" THEN {"read"}
    ELSE {}

\* C23: the capability predicates form a fixed table: Admin has read, write,
\* update, delete and manage-users; DataEntryUser read, write, update and
\* delete; Observer read only; every other role value, and an absent role,
\* has no capability.
C23_CapabilityTable ==
    screen.view # "none" => screen.caps = RoleCapabilities(screen.role)

\* A screen opened by an Observer: read and nothing else.
C23_Witness ==
    /\ screen.view = "/transactions"
    /\ screen.role = "Observer"
    /\ screen.caps = {"read"}

\* C24: wherever an identity field is derived from a token payload, the
\* short-form claim and the namespaced claim are both consulted and the
\* namespaced one is used when both are present: the user of the store, and
\* the profile and the admin flag AppContent derives from the stored token.
C24_BothClaimFormsNamespacedFirst ==
    /\ [](user # Null
            => /\ user.email = Or(token.claims.nsEmail, token.claims.email)
               /\ user.role = Or(token.claims.nsRole, token.claims.role))
    /\ [][(screen' # screen /\ screen'.profile # Null)
            => /\ screen'.profile.email
                    = Or(storage.claims.nsEmail, Or(storage.claims.email, ""))
               /\ screen'.profile.roleName
                    = Or(storage.claims.nsRole, Or(storage.claims.role, ""))
               /\ ("UsersLink" \in screen'.offers)
                    = (Or(storage.claims.nsRole, storage.claims.role) = "Admin")]_vars

\* C25: a logout nobody asked for (made by the check at process start, the
\* effects or an interval callback) happens only when the token is expired
\* at that moment.
C25_AutomaticLogoutOnlyWhenExpired ==
    [][((Mount \/ FlushEffects \/ Tick \/ ModalTick) /\ token # Null /\ token' = Null)
          => ExpiredAt(token, now)]_vars

\* C26: refreshToken called on a token that is already expired does not
\* leave the session authenticated with a token that is valid again.
C26_RefreshDoesNotReviveExpired ==
    [][(RefreshToken /\ token # Null /\ ExpiredAt(token, now))
          => ~(isAuthenticated' /\ token' # Null /\ ~ExpiredAt(token', now))]_vars

C28_RefreshClosesModal ==
    /\ [][(isTokenExpiring /\ last'.op = "refresh" /\ last'.success /\ RefreshCall)
            => /\ ~isTokenExpiring'
               /\ timeUntilExpiration'
                    = Max(0, (token'.claims.exp * 1000 - now) \div 60000)]_vars
    /\ []((last.op = "refresh" /\ last.success /\ modalInterval.on) => Pending)
    /\ [][(last.op = "refresh" /\ last.success /\ (Tick \/ ModalTick))
            => ~modalInterval.on]_vars
    /\ [][(last.op = "refresh" /\ last.success /\ FlushEffects)
            => (~modalInterval'.on /\ ~isTokenExpiring')]_vars

\* Right after the refresh of a token that had two minutes left: the modal
\* is closed and its interval is still registered until the effects run.
C28_Witness ==
    /\ last = [op |-> "refresh", success |-> TRUE, error |-> ""]
    /\ wdDeps = TValid2
    /\ modalInterval.on
    /\ ~isTokenExpiring
    /\ timeUntilExpiration = 30

\* C29: for every role of the current user, the transaction list offers the
\* form and Edit exactly to a role that can write and Delete exactly to one
\* that can delete (Admin, DataEntryUser); the Users link and the
\* user-management screen are offered exactly to Admin; any other role is
\* offered no mutating action.
C29_OffersFollowCapabilities ==
    screen.view # "none"
        => LET writer == screen.role \in {"Admin", "DataEntryUser"}
               admin == screen.role = "Admin"
           IN /\ screen.view = "/transactions"
                    => /\ ("form" \in screen.offers) = writer
                       /\ ("Edit" \in screen.offers) = writer
                       /\ ("Delete" \in screen.offers) = writer
              /\ screen.view = "/users"
                    => ("userManagement" \in screen.offers) = admin
              /\ ("UsersLink" \in screen.offers) = admin
              /\ ~writer
                    => screen.offers \cap {"form", "Edit", "Delete", "userManagement"} = {}

\* C30: the user-management screen sends its requests to /api/User and
\* /api/Roles only for a user who can manage users (Admin).
C30_UserEndpointsOnlyForManagers ==
    (screen.requests \cap {"/api/User", "/api/Roles"} # {}) => screen.role = "Admin"

====
